---- MODULE Spec2Model ----
(***************************************************************************)
(* A model of handler.py: the region driver (lambda_handler), the backup   *)
(* procedure (backup_tagged_instances_in_region) and the expiry procedure  *)
(* (delete_expired_amis), run against a cloud provider whose calls may     *)
(* fail.  Strings that the code parses or formats (tag values) are tuples  *)
(* of one-character strings; dates are proleptic Gregorian ordinals, as in *)
(* datetime.date.  A run is taken to stay within one calendar date: the    *)
(* date changes between runs only.                                         *)
(***************************************************************************)
EXTENDS Integers, Sequences, FiniteSets, TLC

(* ------------------------------ bounds ------------------------------- *)

\* Regions in the configured list (the source lists 15).
NumRegions == 2
\* Invocations of lambda_handler in one behaviour.
MaxRuns == 2
\* Provider calls that fail in one behaviour.
MaxFaults == 1

(* --------------------------- configuration --------------------------- *)

aws_regions == 1..NumRegions

tags_to_find == {"backup", "Backup"}

default_retention_time == 7

global_key_to_tag_on == "FarleysBackupInstanceRotater"

(* ------------------------- text and integers ------------------------- *)

Digits == <<"0", "1", "2", "3", "4", "5", "6", "7", "8", "9">>

IsDigit(c) == c \in {"0", "1", "2", "3", "4", "5", "6", "7", "8", "9"}

DigitVal(c) == (CHOOSE i \in 1..10 : Digits[i] = c) - 1

DigitChar(n) == Digits[n + 1]

AllDigits(s) == \A i \in 1..Len(s) : IsDigit(s[i])

RECURSIVE Number(_)
Number(s) ==
    IF s = <<>> THEN 0
    ELSE 10 * Number(SubSeq(s, 1, Len(s) - 1)) + DigitVal(s[Len(s)])

RECURSIVE Strip(_)
Strip(s) ==
    IF s = <<>> THEN s
    ELSE IF s[1] = " " THEN Strip(Tail(s))
    ELSE IF s[Len(s)] = " " THEN Strip(SubSeq(s, 1, Len(s) - 1))
    ELSE s

\* Python's int(str): surrounding blanks, an optional sign, then digits, with
\* single underscores allowed between digits.  ok = FALSE is ValueError.
int(s) ==
    LET t      == Strip(s)
        signed == t # <<>> /\ t[1] \in {"+", "-"}
        body   == IF signed THEN Tail(t) ELSE t
        digits == SelectSeq(body, LAMBDA c : c # "_")
        ok     == /\ body # <<>>
                  /\ IsDigit(body[1]) /\ IsDigit(body[Len(body)])
                  /\ AllDigits(digits)
                  /\ \A i \in 1..(Len(body) - 1) : ~(body[i] = "_" /\ body[i + 1] = "_")
    IN  [ok  |-> ok,
         val |-> IF ~ok THEN 0
                 ELSE IF signed /\ t[1] = "-" THEN 0 - Number(digits)
                 ELSE Number(digits)]

(* ------------------------------ calendar ----------------------------- *)

IsLeap(y) == (y % 4 = 0 /\ y % 100 # 0) \/ y % 400 = 0

DaysInMonth(y, m) ==
    IF m = 2 THEN (IF IsLeap(y) THEN 29 ELSE 28)
    ELSE IF m \in {4, 6, 9, 11} THEN 30 ELSE 31

DaysBeforeYear(y) ==
    (y - 1) * 365 + ((y - 1) \div 4) - ((y - 1) \div 100) + ((y - 1) \div 400)

RECURSIVE DaysBeforeMonth(_, _)
DaysBeforeMonth(y, m) ==
    IF m = 1 THEN 0 ELSE DaysBeforeMonth(y, m - 1) + DaysInMonth(y, m - 1)

\* datetime.date(y, m, d).toordinal()
ToOrdinal(y, m, d) == DaysBeforeYear(y) + DaysBeforeMonth(y, m) + d

\* datetime.date.fromordinal(n), as <<year, month, day>>
FromOrdinal(n) ==
    LET y == CHOOSE yy \in (n \div 366)..(n \div 365 + 1) :
                 DaysBeforeYear(yy) < n /\ n <= DaysBeforeYear(yy + 1)
        r == n - DaysBeforeYear(y)
        m == CHOOSE mm \in 1..12 :
                 DaysBeforeMonth(y, mm) < r /\ r <= DaysBeforeMonth(y, mm) + DaysInMonth(y, mm)
    IN  <<y, m, r - DaysBeforeMonth(y, m)>>

\* date.strftime('%m-%d-%Y') of the date with ordinal n (years 1000..9999).
strftime(n) ==
    LET c == FromOrdinal(n)
        y == c[1]
        m == c[2]
        d == c[3]
    IN  <<DigitChar(m \div 10), DigitChar(m % 10), "-",
          DigitChar(d \div 10), DigitChar(d % 10), "-",
          DigitChar(y \div 1000), DigitChar((y \div 100) % 10),
          DigitChar((y \div 10) % 10), DigitChar(y % 10)>>

\* time.strptime(s, "%m-%d-%Y"): month 1[0-2]|0[1-9]|[1-9], day
\* 3[01]|[12]\d|0[1-9]|[1-9]| [1-9], year \d\d\d\d, the whole string consumed,
\* and the day within its month.  ok = FALSE is ValueError.  date is the
\* leading <<tm_year, tm_mon, tm_mday>> of the struct_time, which decides
\* every comparison of two results (the remaining fields follow from it).
strptime(s) ==
    LET dashes == {i \in 1..Len(s) : s[i] = "-"}
        split  == Cardinality(dashes) = 2
        p1     == CHOOSE i \in dashes : \A j \in dashes : i <= j
        p2     == CHOOSE i \in dashes : \A j \in dashes : j <= i
        fm     == SubSeq(s, 1, p1 - 1)
        fd0    == SubSeq(s, p1 + 1, p2 - 1)
        fd     == IF Len(fd0) = 2 /\ fd0[1] = " " THEN Tail(fd0) ELSE fd0
        fy     == SubSeq(s, p2 + 1, Len(s))
        shape  == /\ split
                  /\ Len(fm) \in {1, 2} /\ AllDigits(fm)
                  /\ Len(fd) \in {1, 2} /\ AllDigits(fd)
                  /\ Len(fy) = 4 /\ AllDigits(fy)
        y      == Number(fy)
        m      == Number(fm)
        d      == Number(fd)
        ok     == /\ shape
                  /\ m \in 1..12
                  /\ y >= 1
                  /\ d \in 1..DaysInMonth(y, m)
    IN  [ok |-> ok, date |-> IF ok THEN <<y, m, d>> ELSE <<0, 0, 0>>]

\* Python's tuple order on the struct_time prefix: a <= b.
TupleLE(a, b) ==
    \/ a[1] < b[1]
    \/ a[1] = b[1] /\ a[2] < b[2]
    \/ a[1] = b[1] /\ a[2] = b[2] /\ a[3] <= b[3]

(* -------------------------------- tags ------------------------------- *)

Tag(k, v) == [Key |-> k, Value |-> v]

RECURSIVE Values(_)
Values(ts) == IF ts = <<>> THEN <<>> ELSE <<Head(ts).Value>> \o Values(Tail(ts))

\* [t.get('Value') for t in tags if t['Key'] == key]
TagValues(tags, key) == Values(SelectSeq(tags, LAMBDA t : t.Key = key))

HasTagKey(tags, keys) == \E i \in 1..Len(tags) : tags[i].Key \in keys

(* ----------------------- the provider's resources -------------------- *)

\* The first date of a behaviour: 12-31-2023, so that dates cross a year.
FirstDay == ToOrdinal(2023, 12, 31)

\* The instances of the account.  Instance n lives in region RegionOf(n).
InstanceCatalog == <<
    [InstanceId |-> <<"i", 1>>, State |-> "running",
     Tags |-> <<Tag("backup", <<"t", "r", "u", "e">>), Tag("Name", <<"w", "e", "b", "1">>)>>],
    [InstanceId |-> <<"i", 2>>, State |-> "running",
     Tags |-> <<Tag("Backup", <<"1">>), Tag("Retention", <<"2">>)>>],
    [InstanceId |-> <<"i", 3>>, State |-> "terminated",
     Tags |-> <<Tag("backup", <<"1">>), Tag("Retention", <<"2">>)>>],
    [InstanceId |-> <<"i", 4>>, State |-> "running",
     Tags |-> <<Tag("Name", <<"d", "b">>), Tag("Retention", <<"2">>)>>],
    [InstanceId |-> <<"i", 5>>, State |-> "stopped",
     Tags |-> <<Tag("Retention", <<"2", ".", "5">>), Tag("backup", <<>>)>>],
    [InstanceId |-> <<"i", 6>>, State |-> "running",
     Tags |-> <<Tag("Backup", <<"1">>), Tag("Retention", <<"0">>)>>],
    [InstanceId |-> <<"i", 7>>, State |-> "running",
     Tags |-> <<Tag("backup", <<"1">>), Tag("Name", <<"o", "l", "d">>),
                Tag("Retention", <<"-", "1">>)>>] >>

RegionOf(n) == ((n - 1) % NumRegions) + 1

Ebs(n, k) == [DeviceName |-> k, Ebs |-> [SnapshotId |-> <<"snap", n, k>>]]

Ephemeral(k) == [DeviceName |-> k, VirtualName |-> "ephemeral0"]

Image(n, tags, mappings) ==
    [ImageId |-> <<"ami", n>>, Region |-> RegionOf(n), Tags |-> tags,
     BlockDeviceMappings |-> mappings, registered |-> TRUE]

Marker == Tag(global_key_to_tag_on, <<"t", "r", "u", "e">>)

\* Images that exist before the first run.
ImageCatalog == <<
    Image(1, <<Marker, Tag("DeleteAfter", <<"1", "2", "-", "3", "0", "-", "2", "0", "2", "3">>)>>,
          <<Ebs(1, 1), Ephemeral(2), Ebs(1, 3)>>),
    Image(2, <<Tag("DeleteAfter", <<"1", "2", "-", "3", "1", "-", "2", "0", "2", "3">>), Marker>>,
          <<Ebs(2, 1)>>),
    Image(3, <<Marker, Tag("Name", <<"k", "e", "e", "p">>)>>,
          <<Ebs(3, 1)>>),
    Image(4, <<Tag("DeleteAfter", <<"1", "2", "-", "3", "0", "-", "2", "0", "2", "3">>)>>,
          <<Ebs(4, 1)>>),
    Image(5, <<Marker, Tag("DeleteAfter", <<"1", "-", "2", "-", "2", "0", "2", "4">>)>>,
          <<Ebs(5, 1)>>),
    Image(6, <<Marker, Tag("DeleteAfter", <<"2", "0", "2", "3", "-", "1", "2", "-", "3", "0">>)>>,
          <<Ebs(6, 1)>>) >>

\* The image with a hand-written DeleteAfter that is no MM-DD-YYYY date.
Malformed == Len(ImageCatalog)

FirstNewImage == Len(ImageCatalog) + 1

RECURSIVE Ascending(_)
Ascending(S) ==
    IF S = {} THEN <<>>
    ELSE LET n == CHOOSE x \in S : \A y \in S : x <= y
         IN  <<n>> \o Ascending(S \ {n})

RECURSIVE Pick(_, _)
Pick(f, ns) == IF ns = <<>> THEN <<>> ELSE <<f[Head(ns)]>> \o Pick(f, Tail(ns))

\* The provider's answer to describe_instances(Filters tag-key in keys) in
\* region r: one reservation per matching instance.
Reservations(r, keys) ==
    LET match == {n \in 1..Len(InstanceCatalog) :
                      RegionOf(n) = r /\ HasTagKey(InstanceCatalog[n].Tags, keys)}
        insts == Pick(InstanceCatalog, Ascending(match))
    IN  [k \in 1..Len(insts) |-> [Instances |-> <<insts[k]>>]]

(* ------------------------------- state ------------------------------- *)

VARIABLES
    pc,               \* where the run is
    exc,              \* the call whose exception ended the run, or "none"
    region,           \* aws_region of the driver's loop
    runs,             \* invocations of lambda_handler so far
    today,            \* the clock's date, an ordinal
    faults,           \* provider calls that failed
    instances,        \* backup: the instances still to back up
    image,            \* backup: the ImageId create_image returned
    amis_to_consider, \* expiry: the images still to consider
    today_date,       \* expiry: today, as parsed back from its formatting
    todo,             \* expiry: the calls still to issue for the current image
    images,           \* provider: ImageId -> image
    next_image,       \* provider: number of the next ImageId
    deleted,          \* provider: snapshots deleted
    calls,            \* history: the provider calls of this run, in order
    made,             \* history: images create_image returned
    tagged,           \* history: images create_tags tagged, with date and run
    listed,           \* history: images describe_images returned, with date and run
    deregs            \* history: deregister_image calls issued, with date and run

vars == <<pc, exc, region, runs, today, faults, instances, image,
          amis_to_consider, today_date, todo, images, next_image, deleted,
          calls, made, tagged, listed, deregs>>

Call(op, target, result) ==
    [op |-> op, region |-> region, target |-> target, result |-> result]

ImageIds(ns) == {<<"ami", n>> : n \in ns}

Init ==
    /\ pc = "idle"
    /\ exc = "none"
    /\ region = 1
    /\ runs = 0
    /\ today = FirstDay
    /\ faults = 0
    /\ instances = <<>>
    /\ image = <<>>
    /\ amis_to_consider = <<>>
    /\ today_date = <<0, 0, 0>>
    /\ todo = <<>>
    /\ \E ns \in {1..Len(ImageCatalog), (1..Len(ImageCatalog)) \ {Malformed}} :
           images = [id \in ImageIds(ns) |-> ImageCatalog[id[2]]]
    /\ next_image = FirstNewImage
    /\ deleted = {}
    /\ calls = <<>>
    /\ made = {}
    /\ tagged = {}
    /\ listed = {}
    /\ deregs = {}

(* -------------------------- the region driver ------------------------ *)

\* lambda_handler is invoked (on an external schedule): on the date of the
\* run before it, or on the next.
StartRun ==
    /\ pc \in {"idle", "done", "aborted"}
    /\ runs < MaxRuns
    /\ runs' = runs + 1
    /\ \E d \in (IF runs = 0 THEN {0} ELSE {0, 1}) : today' = today + d
    /\ region' = 1
    /\ pc' = "backup_list"
    /\ exc' = "none"
    /\ calls' = <<>>
    /\ instances' = <<>>
    /\ image' = <<>>
    /\ amis_to_consider' = <<>>
    /\ todo' = <<>>
    /\ UNCHANGED <<faults, today_date, images, next_image, deleted,
                   made, tagged, listed, deregs>>

\* An exception leaves lambda_handler.
Raise(call) ==
    /\ pc' = "aborted"
    /\ exc' = call
    /\ region' = region

\* delete_expired_amis returns: the driver's loop goes on.
NextRegion ==
    /\ exc' = exc
    /\ IF region + 1 \in aws_regions
       THEN pc' = "backup_list" /\ region' = region + 1
       ELSE pc' = "done" /\ region' = region

\* backup_tagged_instances_in_region returns: the driver calls
\* delete_expired_amis with the same handle.
BackupReturns ==
    /\ pc' = "expiry_list"
    /\ exc' = exc
    /\ region' = region

\* Tolerated with its test lost: every failure is re-raised.
ToleratesNothing(err) == FALSE

\* Tolerated with a bare except that swallows every failure.
ToleratesEverything(err) == TRUE

\* 'OptInRequired' in str(sys.exc_info())
Tolerated(err) == err = "OptInRequired"

Errors == {"OptInRequired", "Other"}

(* ------------------------ the backup procedure ----------------------- *)

\* NotTerminated with the test on the state left out.
AnyState(i) == TRUE

\* this_instance['State']['Name'] != 'terminated'
NotTerminated(i) == i.State # "terminated"

RECURSIVE Flatten(_)
Flatten(reservations) ==
    IF reservations = <<>> THEN <<>>
    ELSE Head(reservations).Instances \o Flatten(Tail(reservations))

\* The instances the loop of the backup procedure visits.
InstancesToBackup(reservations) == SelectSeq(Flatten(reservations), NotTerminated)

\* The value of the Name tag, or the instance's id.
instance_name(i) ==
    LET vs == TagValues(i.Tags, "Name")
    IN  IF vs = <<>> THEN i.InstanceId ELSE vs[1]

\* retention_days with the Retention tag never read.
retention_days_default(i) == default_retention_time

\* int() of the Retention tag, or the default when the tag is missing or
\* int() raises.
retention_days(i) ==
    LET vs == TagValues(i.Tags, "Retention")
    IN  IF vs = <<>> \/ (\E k \in 1..Len(vs) : ~int(vs[k]).ok)
        THEN default_retention_time
        ELSE int(vs[1]).val

\* (date.today() + timedelta(days)).strftime('%m-%d-%Y')
delete_fmt(day, days) == strftime(day + days)

\* The instance's tags with the three tags the procedure appends.
BackupTags(i, fmt) ==
    i.Tags \o <<Tag("DeleteAfter", fmt),
                Tag("OriginalInstanceID", i.InstanceId),
                Tag(global_key_to_tag_on, <<"t", "r", "u", "e">>)>>

\* describe_instances, then the flattening of its reservations.
BackupList ==
    /\ pc = "backup_list"
    /\ image' = <<>>
    /\ UNCHANGED <<runs, today, amis_to_consider, today_date, todo,
                   images, next_image, deleted, made, tagged, listed, deregs>>
    /\ \/ /\ instances' = InstancesToBackup(Reservations(region, tags_to_find))
          /\ calls' = Append(calls, Call("describe_instances", <<>>, "ok"))
          /\ faults' = faults
          /\ IF instances' = <<>>
             THEN BackupReturns
             ELSE pc' = "backup_loop" /\ exc' = exc /\ region' = region
       \/ \E err \in Errors :
              /\ faults < MaxFaults
              /\ faults' = faults + 1
              /\ calls' = Append(calls, Call("describe_instances", <<>>, err))
              /\ instances' = <<>>
              /\ IF Tolerated(err) THEN BackupReturns ELSE Raise("describe_instances")

\* The head of the loop, to create_image's return.
BackupCreateImage ==
    /\ pc = "backup_loop"
    /\ UNCHANGED <<runs, today, instances, amis_to_consider,
                   today_date, todo, deleted, tagged, listed, deregs>>
    /\ LET i  == Head(instances)
           id == <<"ami", next_image>>
       IN  \/ /\ images' = images @@
                     (id :> [ImageId |-> id, Region |-> region,
                             Name |-> instance_name(i), Tags |-> <<>>,
                             BlockDeviceMappings |-> <<Ebs(next_image, 1)>>,
                             registered |-> TRUE])
              /\ next_image' = next_image + 1
              /\ image' = id
              /\ made' = made \cup {id}
              /\ calls' = Append(calls, Call("create_image", i.InstanceId, "ok"))
              /\ pc' = "backup_tag"
              /\ UNCHANGED <<exc, region, faults>>
           \/ /\ faults < MaxFaults
              /\ faults' = faults + 1
              /\ calls' = Append(calls, Call("create_image", i.InstanceId, "Other"))
              /\ Raise("create_image")
              /\ UNCHANGED <<image, images, next_image, made>>

\* The tags of the new image, to create_tags' return and the loop's next
\* turn or end.
BackupCreateTags ==
    /\ pc = "backup_tag"
    /\ UNCHANGED <<runs, today, image, amis_to_consider,
                   today_date, todo, next_image, deleted, made, listed, deregs>>
    /\ LET i    == Head(instances)
           tags == BackupTags(i, delete_fmt(today, retention_days(i)))
       IN  \/ /\ images' = [images EXCEPT ![image].Tags = tags]
              /\ tagged' = tagged \cup
                     {[ImageId |-> image, InstanceId |-> i.InstanceId,
                       day |-> today, run |-> runs]}
              /\ calls' = Append(calls, Call("create_tags", image, "ok"))
              /\ instances' = Tail(instances)
              /\ faults' = faults
              /\ IF instances' = <<>>
                 THEN BackupReturns
                 ELSE pc' = "backup_loop" /\ exc' = exc /\ region' = region
           \/ /\ faults < MaxFaults
              /\ faults' = faults + 1
              /\ calls' = Append(calls, Call("create_tags", image, "Other"))
              /\ Raise("create_tags")
              /\ UNCHANGED <<instances, images, tagged>>

(* ------------------------ the expiry procedure ----------------------- *)

\* The provider's answer to describe_images(Filters tag-key = key,
\* Owners self) in region r: the registered images carrying the key.
Images(r, key) ==
    LET match == {id[2] : id \in {x \in DOMAIN images :
                      /\ images[x].Region = r
                      /\ images[x].registered
                      /\ HasTagKey(images[x].Tags, {key})}}
    IN  Pick([n \in match |-> images[<<"ami", n>>]], Ascending(match))

\* time.strptime(datetime.datetime.now().strftime('%m-%d-%Y'), '%m-%d-%Y')
Today(day) == strptime(strftime(day)).date

\* TooNew with < for <=: an image is deleted on its DeleteAfter date.
TooNewStrict(t, delete_date) == TupleLE(t, delete_date) /\ t # delete_date

\* today_date <= delete_date: "This item is too new, skipping..."
TooNew(t, delete_date) == TupleLE(t, delete_date)

\* The turns of the loop that end in continue: the images from the first
\* that has a DeleteAfter tag which does not parse or is not too new.
RECURSIVE Skip(_, _)
Skip(amis, t) ==
    IF amis = <<>> THEN <<>>
    ELSE LET vs == TagValues(Head(amis).Tags, "DeleteAfter")
         IN  IF vs = <<>> THEN Skip(Tail(amis), t)
             ELSE LET p == strptime(vs[1])
                  IN  IF p.ok /\ TooNew(t, p.date) THEN Skip(Tail(amis), t) ELSE amis

\* [i['Ebs']['SnapshotId'] for i in ami['BlockDeviceMappings'] if 'Ebs' in i]
RECURSIVE Snapshots(_)
Snapshots(mappings) ==
    IF mappings = <<>> THEN <<>>
    ELSE (IF "Ebs" \in DOMAIN Head(mappings)
          THEN <<Head(mappings).Ebs.SnapshotId>> ELSE <<>>)
         \o Snapshots(Tail(mappings))

RECURSIVE Deletions(_)
Deletions(snaps) ==
    IF snaps = <<>> THEN <<>>
    ELSE <<[op |-> "delete_snapshot", target |-> Head(snaps)]>> \o Deletions(Tail(snaps))

\* ExpiryCalls with the snapshots deleted before the image is deregistered.
ExpiryCallsSnapshotsFirst(ami) ==
    Deletions(Snapshots(ami.BlockDeviceMappings))
    \o <<[op |-> "deregister_image", target |-> ami.ImageId]>>

\* ExpiryCalls with the deregistration left to the last snapshot's success:
\* only an image without snapshots is deregistered.
ExpiryCallsSnapshotsOnly(ami) ==
    IF Snapshots(ami.BlockDeviceMappings) = <<>>
    THEN <<[op |-> "deregister_image", target |-> ami.ImageId]>>
    ELSE Deletions(Snapshots(ami.BlockDeviceMappings))

\* The calls issued for an image found expired, in the order of the code.
ExpiryCalls(ami) ==
    <<[op |-> "deregister_image", target |-> ami.ImageId]>>
    \o Deletions(Snapshots(ami.BlockDeviceMappings))

\* The calls whose exception the procedure catches (try ... except Exception).
Caught(op) == op = "deregister_image"

\* The loop over amis, to its next provider call, its exception or its end.
ExpiryLoop(amis, t) ==
    LET rest == Skip(amis, t)
    IN  IF rest = <<>>
        THEN /\ NextRegion
             /\ amis_to_consider' = <<>>
             /\ todo' = <<>>
        ELSE IF ~strptime(TagValues(Head(rest).Tags, "DeleteAfter")[1]).ok
        THEN \* time.strptime raises ValueError, which nothing catches
             /\ Raise("strptime")
             /\ amis_to_consider' = rest
             /\ todo' = <<>>
        ELSE /\ pc' = "expiry_calls"
             /\ exc' = exc
             /\ region' = region
             /\ amis_to_consider' = Tail(rest)
             /\ todo' = ExpiryCalls(Head(rest))

\* describe_images, then today's date and the loop to its first call.
ExpiryList ==
    /\ pc = "expiry_list"
    /\ UNCHANGED <<runs, today, instances, image, images,
                   next_image, deleted, made, tagged, deregs>>
    /\ \/ LET amis == Images(region, global_key_to_tag_on)
          IN  /\ today_date' = Today(today)
              /\ listed' = listed \cup
                     {[ImageId |-> amis[k].ImageId, day |-> today, run |-> runs] :
                          k \in 1..Len(amis)}
              /\ calls' = Append(calls, Call("describe_images", <<>>, "ok"))
              /\ faults' = faults
              /\ ExpiryLoop(amis, today_date')
       \/ \E err \in Errors :
              /\ faults < MaxFaults
              /\ faults' = faults + 1
              /\ calls' = Append(calls, Call("describe_images", <<>>, err))
              /\ UNCHANGED <<amis_to_consider, today_date, todo, listed>>
              /\ IF Tolerated(err) THEN NextRegion ELSE Raise("describe_images")

\* deregister_image or delete_snapshot for the image found expired, then the
\* loop to its next call.
ExpiryCall ==
    /\ pc = "expiry_calls"
    /\ UNCHANGED <<runs, today, instances, image,
                   today_date, next_image, made, tagged, listed>>
    /\ LET c == Head(todo)
       IN  /\ deregs' = IF c.op = "deregister_image"
                        THEN deregs \cup {[ImageId |-> c.target, day |-> today, run |-> runs]}
                        ELSE deregs
           /\ \/ /\ images' = IF c.op = "deregister_image"
                              THEN [images EXCEPT ![c.target].registered = FALSE]
                              ELSE images
                 /\ deleted' = IF c.op = "delete_snapshot"
                               THEN deleted \cup {c.target}
                               ELSE deleted
                 /\ calls' = Append(calls, Call(c.op, c.target, "ok"))
                 /\ faults' = faults
                 /\ IF Tail(todo) = <<>>
                    THEN ExpiryLoop(amis_to_consider, today_date)
                    ELSE /\ todo' = Tail(todo)
                         /\ UNCHANGED <<pc, exc, region, amis_to_consider>>
              \/ /\ faults < MaxFaults
                 /\ faults' = faults + 1
                 /\ calls' = Append(calls, Call(c.op, c.target, "Other"))
                 /\ UNCHANGED <<images, deleted>>
                 /\ IF ~Caught(c.op)
                    THEN /\ Raise(c.op)
                         /\ UNCHANGED <<amis_to_consider, todo>>
                    ELSE \* "Unable to delete AMI: ..."
                         IF Tail(todo) = <<>>
                         THEN ExpiryLoop(amis_to_consider, today_date)
                         ELSE /\ todo' = Tail(todo)
                              /\ UNCHANGED <<pc, exc, region, amis_to_consider>>

(* --------------------------- specification --------------------------- *)

Next ==
    \/ StartRun
    \/ BackupList
    \/ BackupCreateImage
    \/ BackupCreateTags
    \/ ExpiryList
    \/ ExpiryCall

Spec == Init /\ [][Next]_vars

(* ------------------------- terms of the claims ----------------------- *)

RunEnded == pc \in {"done", "aborted"}

Positions == 1..Len(calls)

Issued(op, target) ==
    \E k \in Positions : calls[k].op = op /\ calls[k].target = target

\* The image whose block-device mappings reference snapshot s.
Owner(s) ==
    CHOOSE id \in DOMAIN images :
        \E k \in 1..Len(images[id].BlockDeviceMappings) :
            LET m == images[id].BlockDeviceMappings[k]
            IN  "Ebs" \in DOMAIN m /\ m.Ebs.SnapshotId = s

\* The ordinal of a parsed date <<year, month, day>>.
DateOrdinal(date) == ToOrdinal(date[1], date[2], date[3])

\* The image carries a DeleteAfter tag naming a date strictly before day.
StrictlyExpired(id, day) ==
    LET vs == TagValues(images[id].Tags, "DeleteAfter")
    IN  /\ vs # <<>>
        /\ LET p == strptime(vs[1])
           IN  p.ok /\ DateOrdinal(p.date) < day

\* The retention each instance of InstanceCatalog asks for, read off its
\* Retention tag by hand: the tag's integer, or 7 without such a tag.
ExpectedRetention == <<7, 2, 2, 2, 7, 0, 0 - 1>>

RetentionOf(instanceId) == ExpectedRetention[instanceId[2]]

InstanceOf(instanceId) == InstanceCatalog[instanceId[2]]

ListingFailed(k) ==
    /\ calls[k].op \in {"describe_instances", "describe_images"}
    /\ calls[k].result # "ok"

ExpiryFailed(k) ==
    /\ calls[k].op \in {"deregister_image", "delete_snapshot"}
    /\ calls[k].result # "ok"

(* ------------------------------- claims ------------------------------ *)

\* C1 (as claimed): of the images a listing of the expiry procedure
\* returned in a run, deregister_image was issued, by the end of the run,
\* for exactly those whose DeleteAfter date is strictly before today.
C1_DeregisteredIffExpired ==
    RunEnded =>
        \A l \in listed :
            l.run = runs =>
                (Issued("deregister_image", l.ImageId) <=> StrictlyExpired(l.ImageId, l.day))

\* The half of C1 that the code keeps: deregister_image and delete_snapshot
\* are issued only for listed images whose DeleteAfter date is strictly
\* before the date of the listing.
OnlyExpiredAreDeleted ==
    \A k \in Positions :
        /\ calls[k].op = "deregister_image" =>
               \E l \in listed : /\ l.run = runs /\ l.ImageId = calls[k].target
                                 /\ StrictlyExpired(l.ImageId, l.day)
        /\ calls[k].op = "delete_snapshot" =>
               \E l \in listed : /\ l.run = runs /\ l.ImageId = Owner(calls[k].target)
                                 /\ StrictlyExpired(l.ImageId, l.day)

\* C2 (as claimed): every image the backup procedure created carries, once
\* the procedure is past its create_tags call, the management marker tag
\* and a DeleteAfter tag that parses as MM-DD-YYYY, also when create_tags
\* failed.
C2_CreatedImagesAreTagged ==
    \A id \in made :
        (images[id].registered /\ ~(pc = "backup_tag" /\ image = id)) =>
            /\ HasTagKey(images[id].Tags, {global_key_to_tag_on})
            /\ TagValues(images[id].Tags, "DeleteAfter") # <<>>
            /\ strptime(TagValues(images[id].Tags, "DeleteAfter")[1]).ok

\* C3 (as claimed): no failed deregister_image or delete_snapshot ends the
\* run: the procedure goes on to the next snapshot and the next image.
C3_ExpiryFailuresNeverStop ==
    \A k \in Positions :
        ExpiryFailed(k) => ~(pc = "aborted" /\ k = Len(calls) /\ exc = calls[k].op)

\* C4: every delete_snapshot call comes after a deregister_image call, in
\* the same run, for the image whose block-device mappings reference the
\* snapshot.
C4_DeregisterBeforeSnapshots ==
    \A j \in Positions :
        calls[j].op = "delete_snapshot" =>
            \E k \in 1..(j - 1) :
                /\ calls[k].op = "deregister_image"
                /\ calls[k].target = Owner(calls[j].target)

\* C4's case: the second snapshot of an image with two is being deleted.
C4_Witness ==
    \E j \in Positions :
        /\ calls[j].op = "delete_snapshot"
        /\ calls[j].target = <<"snap", 1, 3>>

\* C5: a listing that fails with OptInRequired ends its procedure and
\* nothing else: after describe_instances the next call is describe_images
\* for the same region, after describe_images the next call is
\* describe_instances for the next region (or the run is done), and the run
\* is not aborted by it.
C5_OptInIsTolerated ==
    \A k \in Positions :
        (ListingFailed(k) /\ calls[k].result = "OptInRequired") =>
            IF calls[k].op = "describe_instances"
            THEN IF k < Len(calls)
                 THEN /\ calls[k + 1].op = "describe_images"
                      /\ calls[k + 1].region = calls[k].region
                 ELSE pc = "expiry_list" /\ region = calls[k].region
            ELSE IF k < Len(calls)
                 THEN /\ calls[k + 1].op = "describe_instances"
                      /\ calls[k + 1].region = calls[k].region + 1
                 ELSE \/ /\ calls[k].region < NumRegions
                         /\ pc = "backup_list" /\ region = calls[k].region + 1
                      \/ calls[k].region = NumRegions /\ pc = "done"

\* C5's case: describe_instances failed with OptInRequired in the first
\* region, the expiry procedure of that region went on to deregister an
\* image, and the run has reached the next region.
C5_Witness ==
    /\ Len(calls) >= 4
    /\ calls[1].op = "describe_instances" /\ calls[1].result = "OptInRequired"
    /\ calls[2].op = "describe_images" /\ calls[2].region = 1
    /\ calls[3].op = "deregister_image" /\ calls[3].region = 1
    /\ calls[Len(calls)].region = 2

\* C6: create_image is issued only for instances that carry a key of the
\* marker tag set and are not terminated.
C6_OnlyTaggedLiveInstances ==
    \A k \in Positions :
        calls[k].op = "create_image" =>
            /\ HasTagKey(InstanceOf(calls[k].target).Tags, tags_to_find)
            /\ InstanceOf(calls[k].target).State # "terminated"

\* C6's case: the backup loop has passed the regions of the terminated
\* instance 3 and of the untagged instance 4 and has backed up their
\* neighbours.
C6_Witness ==
    /\ Issued("create_image", <<"i", 7>>)
    /\ Issued("create_image", <<"i", 6>>)

\* C7: the DeleteAfter tag of every image the backup procedure has tagged in
\* the run is the one MM-DD-YYYY string of the date of tagging plus the
\* retention of its instance: the Retention tag's integer, or the default 7.
\* (No call changes the tags of an image once they are applied.)
C7_DeleteAfterIsTodayPlusRetention ==
    \A t \in tagged :
        t.run = runs =>
            LET vs == TagValues(images[t.ImageId].Tags, "DeleteAfter")
            IN  /\ Len(vs) = 1
                /\ Len(vs[1]) = 10
                /\ LET p == strptime(vs[1])
                   IN  p.ok /\ DateOrdinal(p.date) = t.day + RetentionOf(t.InstanceId)

\* C7's case: images of an instance with Retention "2" and of one with the
\* unparseable Retention "2.5" have been tagged.
C7_Witness ==
    /\ \E t \in tagged : t.InstanceId = <<"i", 2>>
    /\ \E t \in tagged : t.InstanceId = <<"i", 5>>

\* C8 (as claimed): delete_snapshot is issued only after a deregister_image
\* call for the owning image that succeeded in the same run.
C8_SnapshotsOnlyOfDeregistered ==
    \A j \in Positions :
        calls[j].op = "delete_snapshot" =>
            \E k \in 1..(j - 1) :
                /\ calls[k].op = "deregister_image"
                /\ calls[k].target = Owner(calls[j].target)
                /\ calls[k].result = "ok"

\* C8 (amended): in every run, delete_snapshot is issued for a snapshot only
\* if deregister_image has been issued in that run, successfully or not, for
\* the image that references it, and that image's DeleteAfter date is
\* strictly before the date of the run.
C8_SnapshotsOnlyAfterDeregisterAttempt ==
    \A j \in Positions :
        calls[j].op = "delete_snapshot" =>
            \E d \in deregs :
                /\ d.run = runs
                /\ d.ImageId = Owner(calls[j].target)
                /\ StrictlyExpired(d.ImageId, d.day)

\* C8's case: a snapshot was deleted although the deregistration of its
\* image had failed, so that the image is still registered.
C8_Witness ==
    \E s \in deleted :
        /\ images[Owner(s)].registered
        /\ \E k \in Positions :
               /\ calls[k].op = "deregister_image"
               /\ calls[k].target = Owner(s)
               /\ calls[k].result # "ok"

\* C9: a listing that fails with anything but OptInRequired is the last
\* call of its run, and the run is aborted.
C9_OtherListingFailureAborts ==
    \A k \in Positions :
        (ListingFailed(k) /\ calls[k].result # "OptInRequired") =>
            k = Len(calls) /\ pc = "aborted"

\* C9's case: describe_images failed in a region that is not the last, after
\* the backup procedure of that region had issued calls.
C9_Witness ==
    /\ pc = "aborted"
    /\ exc = "describe_images"
    /\ region < NumRegions
    /\ Len(calls) > 2

\* C10: an image the backup procedure tagged is deregistered only on a date
\* strictly after its date of tagging plus its retention; with a retention
\* of zero or more days it is not deregistered in the run that created it
\* when that run stays within one date.
C10_NotDeregisteredBeforeRetentionEnds ==
    \A t \in tagged : \A d \in deregs :
        d.ImageId = t.ImageId =>
            /\ d.day > t.day + RetentionOf(t.InstanceId)
            /\ (RetentionOf(t.InstanceId) >= 0 /\ d.run = t.run) => d.day # t.day

\* C10's case: an image with a retention of zero days was listed by the
\* expiry procedure of the run that created it, on the date of its tagging,
\* was left alone, and was deregistered by a later run.
C10_Witness ==
    \E t \in tagged :
        /\ RetentionOf(t.InstanceId) >= 0
        /\ \E l \in listed : l.ImageId = t.ImageId /\ l.run = t.run /\ l.day = t.day
        /\ \E d \in deregs : d.ImageId = t.ImageId /\ d.run > t.run

====
